---- MODULE Spec2Model ----
(***************************************************************************)
(* tokio-serial: a serial port wrapped in a readiness-tracking PollEvented *)
(* (src/src/windows.rs) and the serial_println example, which frames the   *)
(* byte stream with LineCodec and prints one line per frame                *)
(* (src/examples/serial_println.rs).                                       *)
(*                                                                         *)
(* Bytes are naturals 0..255.  A String is the sequence of its code        *)
(* points; str::from_utf8 is the UTF-8 validation/decoding of a byte        *)
(* sequence.                                                               *)
(***************************************************************************)
EXTENDS Integers, Sequences, FiniteSets

\* ---------------------------------------------------------------- bounds
\* longest device byte stream explored
MaxStream == 4

\* longest device byte stream when the port is driven call by call
MaxApiStream == 1

\* longest device byte stream when progress is checked
MaxLive == 3

\* longest output buffer handed to encode, and longest message encoded
MaxOut == 1

\* ------------------------------------------------------------- constants
\* b'\n', the frame terminator (serial_println.rs:17)
NL == 10

\* bytes the modelled device can put on the wire: '\n', 'a', and the two
\* bytes of U+00E9 (0xC3 0xA9), which are valid only as that pair
WireBytes == {10, 97, 195, 169}

\* code points of the text strings whose encodings fit WireBytes
TextChars == {97, 233}

\* timeouts a caller may ask for or the driver may hold, in milliseconds
Durations == {0, 1000}

VARIABLES
    wire,          \* bytes the device has not received yet
    inq,           \* bytes waiting in the driver's input queue
    txFull,        \* driver's output queue is full
    rd,            \* Framed's accumulation buffer (EasyBuf)
    readFlag,      \* PollEvented read readiness: "unknown", "ready", "notready"
    writeFlag,     \* PollEvented write readiness
    readInterest,  \* task registered for a read-readiness notification
    writeInterest, \* task registered for a write-readiness notification
    pc,            \* position of the task driving the stream
    item,          \* frame handed to the for_each closure, <<>> if none
    yielded,       \* frames the stream has yielded, in order
    printed,       \* frames the closure has printed, in order
    received,      \* bytes returned by successful reads, in order
    err,           \* error surfaced to the consumer: "none", "io", "decode"
    lastRead,      \* result of the last Serial::read
    blocked,       \* device said would-block, no read notification since
    devTouched,    \* the last step called the device's read
    rdAtSuspend,   \* buffer contents when the task last suspended
    resumed,       \* woken after a suspension, no read returned since
    nReads,        \* number of reads that returned bytes
    prefix,        \* buffer contents just before the last read that returned bytes
    fresh,         \* bytes were appended and decode has not run since
    handle,        \* the device handle: "none", "open", "released"
    port,          \* the Serial value: "none", "live", "dropped"
    releases,      \* how many times the device handle was released
    registered,    \* the port is registered with the reactor
    ret,           \* what the last call on the port or codec returned
    out,           \* the output buffer handed to encode
    drvTimeout     \* the timeout the driver holds for the port, in ms

vars == <<wire, inq, txFull, rd, readFlag, writeFlag, readInterest,
          writeInterest, pc, item, yielded, printed, received, err,
          lastRead, blocked, devTouched, rdAtSuspend, resumed,
          nReads, prefix, fresh, handle, port, releases, registered,
          ret, out, drvTimeout>>

\* the device and the reactor's bookkeeping for it
devVars == <<wire, inq, txFull>>
readVars == <<readFlag, readInterest, blocked>>
writeVars == <<writeFlag, writeInterest>>
\* the Framed stream and its consumer
streamVars == <<rd, item, yielded, printed, received, err, rdAtSuspend,
                nReads, prefix, fresh>>
\* ownership of the device handle
ownVars == <<handle, port, releases, registered>>
\* results of direct calls, the codec's output buffer, driver settings
apiVars == <<ret, out, drvTimeout>>

\* ------------------------------------------------------------- sequences
SeqsUpTo(S, n) == UNION {[1..k -> S] : k \in 0..n}

Drop(s, k) == SubSeq(s, k + 1, Len(s))

\* ----------------------------------------------------------------- UTF-8
IsCont(b) == b >= 128 /\ b <= 191

\* length of the sequence a lead byte opens, 0 if it cannot open one
Utf8Width(b) ==
    IF b < 128 THEN 1
    ELSE IF b >= 194 /\ b <= 223 THEN 2
    ELSE IF b >= 224 /\ b <= 239 THEN 3
    ELSE IF b >= 240 /\ b <= 244 THEN 4
    ELSE 0

\* the second byte of a sequence is further restricted for some leads
SecondOk(b0, b1) ==
    IF b0 = 224 THEN b1 >= 160 /\ b1 <= 191
    ELSE IF b0 = 237 THEN b1 >= 128 /\ b1 <= 159
    ELSE IF b0 = 240 THEN b1 >= 144 /\ b1 <= 191
    ELSE IF b0 = 244 THEN b1 >= 128 /\ b1 <= 143
    ELSE IsCont(b1)

\* the bytes s[1..w] are one well-formed UTF-8 sequence
SeqOk(s, w) ==
    /\ w >= 1
    /\ Len(s) >= w
    /\ (w >= 2 => SecondOk(s[1], s[2]))
    /\ \A i \in 3..w : IsCont(s[i])

CodePoint(s, w) ==
    IF w = 1 THEN s[1]
    ELSE IF w = 2 THEN (s[1] - 192) * 64 + (s[2] - 128)
    ELSE IF w = 3 THEN (s[1] - 224) * 4096 + (s[2] - 128) * 64 + (s[3] - 128)
    ELSE (s[1] - 240) * 262144 + (s[2] - 128) * 4096
         + (s[3] - 128) * 64 + (s[4] - 128)

RECURSIVE Utf8Valid(_)
Utf8Valid(s) ==
    IF s = <<>> THEN TRUE
    ELSE LET w == Utf8Width(s[1])
         IN  SeqOk(s, w) /\ Utf8Valid(Drop(s, w))

RECURSIVE Utf8Chars(_)
Utf8Chars(s) ==
    IF s = <<>> THEN <<>>
    ELSE LET w == Utf8Width(s[1])
         IN  <<CodePoint(s, w)>> \o Utf8Chars(Drop(s, w))

\* the bytes of a String
EncodeChar(c) ==
    IF c < 128 THEN <<c>>
    ELSE IF c < 2048 THEN <<192 + (c \div 64), 128 + (c % 64)>>
    ELSE IF c < 65536
         THEN <<224 + (c \div 4096), 128 + ((c \div 64) % 64), 128 + (c % 64)>>
    ELSE <<240 + (c \div 262144), 128 + ((c \div 4096) % 64),
           128 + ((c \div 64) % 64), 128 + (c % 64)>>

RECURSIVE as_bytes(_)
as_bytes(t) ==
    IF t = <<>> THEN <<>> ELSE EncodeChar(Head(t)) \o as_bytes(Tail(t))

\* a from_utf8 that accepts every byte sequence
from_utf8_unchecked(bytes) ==
    [ok |-> TRUE,
     s  |-> IF Utf8Valid(bytes) THEN Utf8Chars(bytes) ELSE bytes]

\* str::from_utf8 followed by to_string
from_utf8(bytes) ==
    IF Utf8Valid(bytes) THEN [ok |-> TRUE, s |-> Utf8Chars(bytes)]
    ELSE [ok |-> FALSE, s |-> <<>>]

\* ------------------------------------------------------------- LineCodec
\* a search that reports the end of the buffer when there is no newline
position_or_end(buf) ==
    IF \E i \in 1..Len(buf) : buf[i] = NL
    THEN (CHOOSE i \in 1..Len(buf) :
              buf[i] = NL /\ \A j \in 1..(i - 1) : buf[j] # NL) - 1
    ELSE Len(buf) - 1

\* a search that finds the last newline
rposition(buf) ==
    IF \E i \in 1..Len(buf) : buf[i] = NL
    THEN (CHOOSE i \in 1..Len(buf) :
              buf[i] = NL /\ \A j \in (i + 1)..Len(buf) : buf[j] # NL) - 1
    ELSE -1

\* buf.as_ref().iter().position(|b| *b == b'\n'): 0-based offset of the
\* first newline, -1 for None
position(buf) ==
    IF \E i \in 1..Len(buf) : buf[i] = NL
    THEN (CHOOSE i \in 1..Len(buf) :
              buf[i] = NL /\ \A j \in 1..(i - 1) : buf[j] # NL) - 1
    ELSE -1

\* a drain that stops one byte early
drain_to_short(buf, at) ==
    [head |-> SubSeq(buf, 1, at - 1), rest |-> Drop(buf, at - 1)]

\* EasyBuf::drain_to(at): splits off the first `at` bytes
drain_to(buf, at) ==
    [head |-> SubSeq(buf, 1, at), rest |-> Drop(buf, at)]

\* an Ok(None) exit that throws away the first buffered byte
no_frame_skipping(buf) ==
    [res |-> "None", text |-> <<>>, buf |-> Drop(buf, 1)]

\* the Ok(None) exit of decode: the buffer is not touched
no_frame(buf) ==
    [res |-> "None", text |-> <<>>, buf |-> buf]

\* a decode that validates the line before it drains it
decode_checking_first(buf) ==
    LET n == position(buf)
    IN  IF n >= 0
        THEN LET str == from_utf8(SubSeq(buf, 1, n + 1))
             IN  IF str.ok
                 THEN [res |-> "Some", text |-> str.s, buf |-> Drop(buf, n + 1)]
                 ELSE [res |-> "Err", text |-> <<>>, buf |-> buf]
        ELSE no_frame(buf)

\* LineCodec::decode
decode(buf) ==
    LET n == position(buf)
    IN  IF n >= 0
        THEN LET line == drain_to(buf, n + 1)
                 str  == from_utf8(line.head)
             IN  IF str.ok
                 THEN [res |-> "Some", text |-> str.s, buf |-> line.rest]
                 ELSE [res |-> "Err", text |-> <<>>, buf |-> line.rest]
        ELSE no_frame(buf)

\* an encode that writes the message and a newline
encode_line(msg, buf) ==
    [res |-> "Ok", buf |-> buf \o as_bytes(msg) \o <<NL>>]

\* LineCodec::encode: "Don't actually encode anything."
encode(msg, buf) ==
    [res |-> "Ok", buf |-> buf]

\* ---------------------------------------------------------------- device
\* results the driver's non-blocking read can give right now: queued bytes
\* (any positive count), would-block while more bytes are still to come,
\* zero bytes once the stream is over, or an I/O failure at any time
DevReadResults ==
    {[kind |-> "err", bytes |-> <<>>]}
    \cup (IF inq # <<>>
          THEN {[kind |-> "data", bytes |-> SubSeq(inq, 1, k)] : k \in 1..Len(inq)}
          ELSE IF wire # <<>>
               THEN {[kind |-> "wouldblock", bytes |-> <<>>]}
               ELSE {[kind |-> "eof", bytes |-> <<>>]})

\* results the driver's non-blocking write can give right now
DevWriteResults ==
    {"err"} \cup (IF txFull THEN {"wouldblock"} ELSE {"ok"})

\* the device has something to report to a reader
Readable == inq # <<>> \/ wire = <<>>

\* bytes reach the driver's input queue
Arrive ==
    /\ handle = "open"
    /\ wire # <<>>
    /\ \E k \in 1..Len(wire) :
         /\ inq' = inq \o SubSeq(wire, 1, k)
         /\ wire' = Drop(wire, k)
    /\ devTouched' = FALSE
    /\ UNCHANGED <<txFull, readVars, writeVars, streamVars, pc, lastRead,
                   resumed>>
    /\ UNCHANGED <<ownVars, apiVars>>

\* the driver's output queue empties
TxDrain ==
    /\ handle = "open"
    /\ txFull
    /\ txFull' = FALSE
    /\ devTouched' = FALSE
    /\ UNCHANGED <<wire, inq, readVars, writeVars, streamVars, pc, lastRead,
                   resumed>>
    /\ UNCHANGED <<ownVars, apiVars>>

\* ----------------------------------------------------------- PollEvented
\* the driver's read called without the readiness bookkeeping
DeviceReadDirect(r) ==
    /\ r \in DevReadResults
    /\ devTouched' = TRUE
    /\ lastRead' = r
    /\ inq' = Drop(inq, Len(r.bytes))
    /\ blocked' = (r.kind = "wouldblock" \/ blocked)
    /\ UNCHANGED <<readFlag, readInterest, writeFlag, writeInterest>>

\* PollEvented::read: no driver call while the read flag is cleared; a
\* would-block from the driver clears the flag and registers read interest
PollEventedRead(r) ==
    IF readFlag = "notready"
    THEN /\ r = [kind |-> "wouldblock", bytes |-> <<>>]
         /\ devTouched' = FALSE
         /\ lastRead' = r
         /\ readInterest' = TRUE
         /\ UNCHANGED <<inq, readFlag, blocked>>
    ELSE /\ r \in DevReadResults
         /\ devTouched' = TRUE
         /\ lastRead' = r
         /\ inq' = Drop(inq, Len(r.bytes))
         /\ IF r.kind = "wouldblock"
            THEN readFlag' = "notready" /\ readInterest' = TRUE /\ blocked' = TRUE
            ELSE UNCHANGED <<readFlag, readInterest, blocked>>

\* PollEvented::write, the same bookkeeping for the write direction
PollEventedWrite(w) ==
    IF writeFlag = "notready"
    THEN /\ w = "wouldblock"
         /\ writeInterest' = TRUE
         /\ UNCHANGED <<txFull, writeFlag>>
    ELSE /\ w \in DevWriteResults
         /\ IF w = "wouldblock"
            THEN writeFlag' = "notready" /\ writeInterest' = TRUE /\ UNCHANGED txFull
            ELSE IF w = "ok"
                 THEN txFull' \in BOOLEAN /\ UNCHANGED <<writeFlag, writeInterest>>
                 ELSE UNCHANGED <<txFull, writeFlag, writeInterest>>

\* ----------------------------------------------------------------- Serial
\* a read whose would-block marks the whole port not ready
SerialReadBlocksPort(r) ==
    /\ PollEventedRead(r)
    /\ IF r.kind = "wouldblock"
       THEN writeFlag' = "notready" /\ writeInterest' = TRUE
       ELSE UNCHANGED <<writeFlag, writeInterest>>

\* impl Read for Serial: the read goes to the PollEvented and nowhere else
SerialRead(r) ==
    /\ PollEventedRead(r)
    /\ UNCHANGED <<writeFlag, writeInterest>>

\* impl Write for Serial: the write goes to the PollEvented and nowhere else
SerialWrite(w) ==
    /\ PollEventedWrite(w)
    /\ UNCHANGED <<readFlag, readInterest>>

\* Serial::poll_read: Ready when the port is known readable; otherwise the
\* current task is scheduled for a read notification (windows.rs:32-37)
SerialPollRead(res) ==
    /\ res = IF readFlag = "ready" THEN "Ready" ELSE "NotReady"
    /\ readInterest' = (readInterest \/ readFlag # "ready")
    /\ UNCHANGED <<readFlag, writeFlag, writeInterest>>

\* a poll_write that asks about the read direction
poll_write_asking_read(res) ==
    /\ res = IF readFlag = "ready" THEN "Ready" ELSE "NotReady"
    /\ readInterest' = (readInterest \/ readFlag # "ready")
    /\ UNCHANGED <<readFlag, writeFlag, writeInterest>>

\* Serial::poll_write: the same for the write direction (windows.rs:42-47)
SerialPollWrite(res) ==
    /\ res = IF writeFlag = "ready" THEN "Ready" ELSE "NotReady"
    /\ writeInterest' = (writeInterest \/ writeFlag # "ready")
    /\ UNCHANGED <<writeFlag, readFlag, readInterest>>

\* Serial::timeout: Duration::from_secs(0), in milliseconds
timeout == 0

\* a set_timeout that hands the value to the driver like the other setters
set_timeout_forwarding(d) ==
    /\ drvTimeout' = d

\* Serial::set_timeout: the argument is ignored
set_timeout(d) ==
    /\ drvTimeout' = drvTimeout

\* a from_path that hands out a port although the reactor refused it
from_path_unregistered(opened, reg) ==
    IF opened = "err"
    THEN UNCHANGED <<handle, port, releases, registered>>
    ELSE /\ handle' = "open"
         /\ port' = "live"
         /\ registered' = (reg = "ok")
         /\ UNCHANGED releases

\* Serial::from_path: open the device, then register it with the reactor;
\* either failure is returned at once.  The opened port was moved into
\* PollEvented::new, so a failed registration drops it and with it the
\* handle.
from_path(opened, reg) ==
    IF opened = "err"
    THEN UNCHANGED <<handle, port, releases, registered>>
    ELSE IF reg = "err"
    THEN /\ handle' = "released"
         /\ releases' = releases + 1
         /\ UNCHANGED <<port, registered>>
    ELSE /\ handle' = "open"
         /\ port' = "live"
         /\ registered' = TRUE
         /\ UNCHANGED releases

\* a Serial that also closes the raw handle itself when it goes away
SerialDropTwice ==
    /\ port' = "dropped"
    /\ handle' = "released"
    /\ releases' = releases + 2
    /\ registered' = FALSE
    /\ readInterest' = FALSE
    /\ writeInterest' = FALSE

\* struct Serial { io }: dropping the port drops its only field, which
\* deregisters from the reactor and releases the handle it owns
SerialDrop ==
    /\ port' = "dropped"
    /\ handle' = "released"
    /\ releases' = releases + 1
    /\ registered' = FALSE
    /\ readInterest' = FALSE
    /\ writeInterest' = FALSE

\* ------------------------------------------------------------------- main
\* a consumer that records the error and keeps polling the stream
printer_ignore_err(e) ==
    /\ err' = e
    /\ pc' = "decode"

\* reader.for_each(..) resolves with the stream's first error and
\* core.run(printer).unwrap() ends the run on it
printer_err(e) ==
    /\ err' = e
    /\ pc' = "failed"

\* main opens the port and unwraps the result
FromPath ==
    /\ pc = "start"
    /\ \E opened \in {"ok", "err"}, reg \in {"ok", "err"} :
         from_path(opened, reg)
    /\ IF port' = "live"
       THEN pc' = "decode" /\ err' = err
       ELSE pc' = "failed" /\ err' = "open"
    /\ devTouched' = FALSE
    /\ UNCHANGED <<devVars, readVars, writeVars, rd, item, yielded, printed,
                   received, rdAtSuspend, nReads, prefix, fresh, lastRead,
                   resumed, apiVars>>

\* the stream and the port inside it go away: when the run has ended, or
\* when the suspended task is abandoned; what the buffer held is discarded
DropStream ==
    /\ port = "live"
    /\ pc \in {"parked", "closed", "failed"}
    /\ SerialDrop
    /\ rd' = <<>>
    /\ pc' = IF pc = "parked" THEN "abandoned" ELSE pc
    /\ devTouched' = FALSE
    /\ UNCHANGED <<devVars, readFlag, blocked, writeFlag, item, yielded,
                   printed, received, err, rdAtSuspend, nReads, prefix, fresh,
                   lastRead, resumed, apiVars>>

\* a closure that takes the frame and prints nothing
for_each_item_silent ==
    /\ pc = "print"
    /\ printed' = printed
    /\ item' = <<>>
    /\ pc' = "decode"
    /\ devTouched' = FALSE
    /\ UNCHANGED <<devVars, readVars, writeVars, rd, yielded, received, err,
                   rdAtSuspend, nReads, prefix, fresh, lastRead, resumed>>
    /\ UNCHANGED <<ownVars, apiVars>>

\* the for_each closure, which prints the frame it is handed
for_each_item ==
    /\ pc = "print"
    /\ printed' = Append(printed, item[1])
    /\ item' = <<>>
    /\ pc' = "decode"
    /\ devTouched' = FALSE
    /\ UNCHANGED <<devVars, readVars, writeVars, rd, yielded, received, err,
                   rdAtSuspend, nReads, prefix, fresh, lastRead, resumed>>
    /\ UNCHANGED <<ownVars, apiVars>>

\* ----------------------------------------------------------------- Framed
\* next item requested: decode what the buffer holds
Decode ==
    /\ pc = "decode"
    /\ LET d == decode(rd)
       IN  /\ rd' = d.buf
           /\ IF d.res = "Some"
              THEN /\ yielded' = Append(yielded, d.text)
                   /\ item' = <<d.text>>
                   /\ pc' = "print"
                   /\ err' = err
              ELSE IF d.res = "Err"
                   THEN printer_err("decode") /\ UNCHANGED <<yielded, item>>
                   ELSE pc' = "read" /\ UNCHANGED <<yielded, item, err>>
    /\ fresh' = FALSE
    /\ devTouched' = FALSE
    /\ UNCHANGED <<devVars, readVars, writeVars, printed, received,
                   rdAtSuspend, nReads, prefix, lastRead, resumed>>
    /\ UNCHANGED <<ownVars, apiVars>>

\* no frame in the buffer: read from the port and act on the result
Read ==
    /\ pc = "read"
    /\ \E r \in DevReadResults \cup {[kind |-> "wouldblock", bytes |-> <<>>]} :
         /\ SerialRead(r)
         /\ IF r.kind = "data"
            THEN /\ rd' = rd \o r.bytes
                 /\ received' = received \o r.bytes
                 /\ prefix' = rd
                 /\ fresh' = TRUE
                 /\ nReads' = nReads + 1
                 /\ resumed' = FALSE
                 /\ pc' = "decode"
                 /\ UNCHANGED <<err, rdAtSuspend>>
            ELSE IF r.kind = "wouldblock"
            THEN /\ pc' = "parked"
                 /\ rdAtSuspend' = rd
                 /\ UNCHANGED <<rd, received, prefix, fresh, nReads, resumed, err>>
            ELSE IF r.kind = "eof"
            THEN /\ pc' = "closed"
                 /\ rd' = <<>>
                 /\ UNCHANGED <<received, prefix, fresh, nReads, resumed, err,
                                rdAtSuspend>>
            ELSE /\ printer_err("io")
                 /\ UNCHANGED <<rd, received, prefix, fresh, nReads, resumed,
                                rdAtSuspend>>
    /\ UNCHANGED <<wire, txFull, item, yielded, printed>>
    /\ UNCHANGED <<ownVars, apiVars>>

\* a write on the port from the running task
Write ==
    /\ pc \in {"decode", "read"}
    /\ \E w \in {"ok", "wouldblock", "err"} : SerialWrite(w)
    /\ devTouched' = FALSE
    /\ UNCHANGED <<wire, inq, blocked, streamVars, pc, lastRead, resumed>>
    /\ UNCHANGED <<ownVars, apiVars>>

\* ---------------------------------------------------------------- reactor
\* the reactor delivers a read-readiness notification
NotifyRead ==
    /\ readInterest
    /\ Readable
    /\ readFlag' = "ready"
    /\ readInterest' = FALSE
    /\ blocked' = FALSE
    /\ pc' = IF pc = "parked" THEN "decode" ELSE pc
    /\ resumed' = IF pc = "parked" THEN TRUE ELSE resumed
    /\ devTouched' = FALSE
    /\ UNCHANGED <<devVars, writeVars, streamVars, lastRead>>
    /\ UNCHANGED <<ownVars, apiVars>>

\* the reactor delivers a write-readiness notification
NotifyWrite ==
    /\ writeInterest
    /\ ~txFull
    /\ writeFlag' = "ready"
    /\ writeInterest' = FALSE
    /\ pc' = IF pc = "parked" THEN "decode" ELSE pc
    /\ resumed' = IF pc = "parked" THEN TRUE ELSE resumed
    /\ devTouched' = FALSE
    /\ UNCHANGED <<devVars, readVars, streamVars, lastRead>>
    /\ UNCHANGED <<ownVars, apiVars>>

\* ---------------------------------------------------------- specification
\* main before it opens the port, with the byte stream the device will see
InitWith(streams) ==
    /\ wire \in streams
    /\ inq = <<>>
    /\ txFull = FALSE
    /\ rd = <<>>
    /\ readFlag = "unknown"
    /\ writeFlag = "unknown"
    /\ readInterest = FALSE
    /\ writeInterest = FALSE
    /\ pc = "start"
    /\ item = <<>>
    /\ yielded = <<>>
    /\ printed = <<>>
    /\ received = <<>>
    /\ err = "none"
    /\ lastRead = [kind |-> "none", bytes |-> <<>>]
    /\ blocked = FALSE
    /\ devTouched = FALSE
    /\ rdAtSuspend = <<>>
    /\ resumed = FALSE
    /\ nReads = 0
    /\ prefix = <<>>
    /\ fresh = FALSE
    /\ handle = "none"
    /\ port = "none"
    /\ releases = 0
    /\ registered = FALSE
    /\ ret = [op |-> "none", val |-> "none", num |-> 0, bit |-> 0]
    /\ out = <<>>
    /\ drvTimeout = 1

Init == InitWith(SeqsUpTo(WireBytes, MaxStream))

Next ==
    \/ FromPath
    \/ DropStream
    \/ Arrive
    \/ TxDrain
    \/ Decode
    \/ for_each_item
    \/ Read
    \/ Write
    \/ NotifyRead
    \/ NotifyWrite

Spec == Init /\ [][Next]_vars

\* the same program on streams of valid text, with a scheduler that runs the
\* task whenever it can run, a reactor that delivers every read
\* notification, and a device that delivers every byte
LiveInit == InitWith(SeqsUpTo({NL, 97}, MaxLive))

LiveSpec ==
    /\ LiveInit
    /\ [][Next]_vars
    /\ WF_vars(FromPath)
    /\ WF_vars(Decode)
    /\ WF_vars(for_each_item)
    /\ WF_vars(Read)
    /\ WF_vars(NotifyRead)
    /\ WF_vars(Arrive)

TypeOK ==
    /\ pc \in {"start", "decode", "print", "read", "parked", "closed",
              "failed", "abandoned", "api"}
    /\ readFlag \in {"unknown", "ready", "notready"}
    /\ writeFlag \in {"unknown", "ready", "notready"}
    /\ err \in {"none", "open", "io", "decode"}
    /\ handle \in {"none", "open", "released"}
    /\ port \in {"none", "live", "dropped"}
    /\ Len(item) <= 1

\* ------------------------------------------------ the port, call by call
\* the record a call leaves in ret; the bit tells two equal calls apart
Ret(op, val, num) == [op |-> op, val |-> val, num |-> num, bit |-> 1 - ret.bit]

\* what a call on the port leaves alone besides the port's own state
ApiFrame ==
    UNCHANGED <<rd, item, yielded, printed, err, rdAtSuspend, nReads, prefix,
                fresh, pc, resumed>>

\* a caller reads from the port
ApiRead ==
    /\ port = "live"
    /\ \E r \in DevReadResults \cup {[kind |-> "wouldblock", bytes |-> <<>>]} :
         /\ SerialRead(r)
         /\ received' = received \o r.bytes
         /\ ret' = Ret("read", r.kind, Len(r.bytes))
    /\ ApiFrame
    /\ UNCHANGED <<wire, txFull, ownVars, out, drvTimeout>>

\* a caller writes to the port
ApiWrite ==
    /\ port = "live"
    /\ \E w \in {"ok", "wouldblock", "err"} :
         /\ SerialWrite(w)
         /\ ret' = Ret("write", w, 0)
    /\ devTouched' = FALSE
    /\ ApiFrame
    /\ UNCHANGED <<wire, inq, blocked, lastRead, received, ownVars, out,
                   drvTimeout>>

\* a caller asks whether the port is readable
PollRead ==
    /\ port = "live"
    /\ \E res \in {"Ready", "NotReady"} :
         /\ SerialPollRead(res)
         /\ ret' = Ret("poll_read", res, 0)
    /\ devTouched' = FALSE
    /\ ApiFrame
    /\ UNCHANGED <<devVars, blocked, lastRead, received, ownVars, out,
                   drvTimeout>>

\* a caller asks whether the port is writable
PollWrite ==
    /\ port = "live"
    /\ \E res \in {"Ready", "NotReady"} :
         /\ SerialPollWrite(res)
         /\ ret' = Ret("poll_write", res, 0)
    /\ devTouched' = FALSE
    /\ ApiFrame
    /\ UNCHANGED <<devVars, blocked, lastRead, received, ownVars, out,
                   drvTimeout>>

\* a caller queries the timeout
Timeout ==
    /\ port = "live"
    /\ ret' = Ret("timeout", "Duration", timeout)
    /\ devTouched' = FALSE
    /\ ApiFrame
    /\ UNCHANGED <<devVars, readVars, writeVars, lastRead, received, ownVars,
                   out, drvTimeout>>

\* a caller sets the timeout
SetTimeout ==
    /\ port = "live"
    /\ \E d \in Durations :
         /\ set_timeout(d)
         /\ ret' = Ret("set_timeout", "Ok", d)
    /\ devTouched' = FALSE
    /\ ApiFrame
    /\ UNCHANGED <<devVars, readVars, writeVars, lastRead, received, ownVars,
                   out>>

\* a message is encoded into the output buffer
Encode ==
    /\ \E msg \in SeqsUpTo(TextChars, MaxOut) :
         LET e == encode(msg, out)
         IN  /\ out' = e.buf
             /\ ret' = Ret("encode", e.res, Len(msg))
    /\ devTouched' = FALSE
    /\ ApiFrame
    /\ UNCHANGED <<devVars, readVars, writeVars, lastRead, received, ownVars,
                   drvTimeout>>

\* the caller drops the port
ApiDrop ==
    /\ port = "live"
    /\ SerialDrop
    /\ ret' = Ret("drop", "none", 0)
    /\ devTouched' = FALSE
    /\ ApiFrame
    /\ UNCHANGED <<devVars, readFlag, writeFlag, blocked, lastRead, received,
                   out, drvTimeout>>

\* a port just opened, with any output buffer and any driver timeout
InitApi ==
    /\ wire \in SeqsUpTo({NL, 97}, MaxApiStream)
    /\ inq = <<>>
    /\ txFull = FALSE
    /\ rd = <<>>
    /\ readFlag = "unknown"
    /\ writeFlag = "unknown"
    /\ readInterest = FALSE
    /\ writeInterest = FALSE
    /\ pc = "api"
    /\ item = <<>>
    /\ yielded = <<>>
    /\ printed = <<>>
    /\ received = <<>>
    /\ err = "none"
    /\ lastRead = [kind |-> "none", bytes |-> <<>>]
    /\ blocked = FALSE
    /\ devTouched = FALSE
    /\ rdAtSuspend = <<>>
    /\ resumed = FALSE
    /\ nReads = 0
    /\ prefix = <<>>
    /\ fresh = FALSE
    /\ handle = "open"
    /\ port = "live"
    /\ releases = 0
    /\ registered = TRUE
    /\ ret = [op |-> "none", val |-> "none", num |-> 0, bit |-> 0]
    /\ out \in SeqsUpTo({NL, 97}, MaxOut)
    /\ drvTimeout \in Durations

NextApi ==
    \/ ApiRead
    \/ ApiWrite
    \/ PollRead
    \/ PollWrite
    \/ Timeout
    \/ SetTimeout
    \/ Encode
    \/ ApiDrop
    \/ Arrive
    \/ TxDrain
    \/ NotifyRead
    \/ NotifyWrite

SpecApi == InitApi /\ [][NextApi]_vars

\* the last step was a call of the named operation
Called(op) == ret' # ret /\ ret'.op = op

\* ------------------------------------------------------ reference framing
\* positions of the terminators in a byte sequence
TermIdx(bytes) == {i \in 1..Len(bytes) : bytes[i] = NL}

NumTerm(bytes) == Cardinality(TermIdx(bytes))

\* position of the k-th terminator
NthTerm(bytes, k) ==
    CHOOSE i \in TermIdx(bytes) :
        Cardinality({j \in TermIdx(bytes) : j <= i}) = k

\* the k-th terminator-delimited segment, terminator included
Segment(bytes, k) ==
    SubSeq(bytes, IF k = 1 THEN 1 ELSE NthTerm(bytes, k - 1) + 1,
           NthTerm(bytes, k))

NoNL(bytes) == \A i \in 1..Len(bytes) : bytes[i] # NL

\* every complete segment is valid text and there is at least one
WellFormed(bytes) ==
    /\ NumTerm(bytes) >= 1
    /\ \A k \in 1..NumTerm(bytes) : Utf8Valid(Segment(bytes, k))

\* the step is the stream's decode attempt / its read from the port
DecodeStep == pc = "decode" /\ pc' # "decode"

ReadStep == pc = "read" /\ pc' # "read"

\* ------------------------------------------------------------------ claims

\* C1: the frames yielded so far are, in order, exactly the first
\* terminator-delimited segments of the bytes read so far: the k-th frame
\* yielded is the k-th segment, so none is reordered, repeated or split,
\* however the byte stream was cut into reads.
C1_FramesInTerminatorOrder ==
    /\ Len(yielded) <= NumTerm(received)
    /\ \A k \in 1..Len(yielded) : as_bytes(yielded[k]) = Segment(received, k)

\* C1 witness: two frames were yielded from bytes that came in three reads
C1_Witness ==
    /\ Len(yielded) = 2
    /\ nReads = 3
    /\ yielded[1] # yielded[2]

\* C2: for every text S without a terminator, decoding a buffer that holds
\* exactly the bytes of S followed by the terminator yields the one frame
\* S + terminator, consumes len(S) + 1 bytes and leaves the buffer empty.
C2_DecodeOneLine ==
    [][(DecodeStep /\ rd # <<>>)
       => \A S \in SeqsUpTo(TextChars, Len(rd) - 1) :
          (rd = as_bytes(S) \o <<NL>>)
          => /\ yielded' = Append(yielded, S \o <<NL>>)
             /\ item' = <<S \o <<NL>>>>
             /\ Len(rd) - Len(rd') = Len(as_bytes(S)) + 1
             /\ rd' = <<>>]_vars

\* C2 witness: the two-byte character U+00E9 and the terminator were just
\* decoded from a buffer that held nothing else, and so was the empty line
C2_Witness ==
    /\ pc = "print"
    /\ rd = <<>>
    /\ item = <<<<233, NL>>>>
    /\ yielded = <<<<NL>>, <<233, NL>>>>
    /\ received = <<NL, 195, 169, NL>>
    /\ nReads = 2

\* C3: when one read delivered N well-formed frames, then by the time the
\* stream asks for more bytes it has yielded exactly those N frames in
\* order, and the buffer is empty if the read ended on a terminator.
C3_SingleReadAllFrames ==
    (nReads = 1 /\ WellFormed(received) /\ pc \in {"read", "parked", "closed"})
    => /\ Len(yielded) = NumTerm(received)
       /\ \A k \in 1..NumTerm(received) :
              yielded[k] = Utf8Chars(Segment(received, k))
       /\ (received[Len(received)] = NL => rd = <<>>)
       /\ printed = yielded

\* C3 witness: a\na\n came in one read, two frames were yielded and the next
\* read returned zero bytes
C3_Witness ==
    /\ nReads = 1
    /\ received = <<97, NL, 97, NL>>
    /\ yielded = <<<<97, NL>>, <<97, NL>>>>
    /\ pc = "closed"
    /\ lastRead.kind = "eof"

\* C4: a buffer without a terminator makes decode report no frame, yields
\* nothing and stays as it is; when a later read brings the terminator, the
\* next frame is the buffered prefix followed by the new bytes up to and
\* including the first terminator.
C4_PartialThenComplete ==
    [][/\ (DecodeStep /\ NoNL(rd))
          => (pc' = "read" /\ yielded' = yielded /\ rd' = rd /\ item' = item)
       /\ (DecodeStep /\ fresh /\ prefix # <<>> /\ NoNL(prefix)
             /\ ~NoNL(lastRead.bytes)
             /\ Utf8Valid(prefix \o Segment(lastRead.bytes, 1)))
          => /\ yielded' =
                  Append(yielded, Utf8Chars(prefix \o Segment(lastRead.bytes, 1)))
             /\ rd' = Drop(lastRead.bytes, NthTerm(lastRead.bytes, 1))]_vars

\* C4 witness: a was read first, then \na\n; a\n was yielded after the second
\* read and a\n again from what was left
C4_Witness ==
    /\ nReads = 2
    /\ prefix = <<97>>
    /\ lastRead.bytes = <<NL, 97, NL>>
    /\ yielded = <<<<97, NL>>, <<97, NL>>>>

\* C5: when the bytes up to the next terminator are not valid text, decode
\* fails, the failure is reported, nothing is yielded, and once the stream
\* has failed no frame is ever yielded again, whatever the buffer holds.
C5_InvalidEncodingIsTerminal ==
    [][/\ (DecodeStep /\ ~NoNL(rd) /\ ~Utf8Valid(Segment(rd, 1)))
          => (pc' = "failed" /\ err' = "decode" /\ yielded' = yielded
              /\ item' = item)
       /\ (pc = "failed" /\ err = "decode")
          => (pc' = "failed" /\ err' = err /\ yielded' = yielded
              /\ item' = item /\ printed' = printed)]_vars

\* C5 witness: the stream failed on an invalid line while a complete valid
\* frame was still in the buffer
C5_Witness ==
    /\ pc = "failed"
    /\ err = "decode"
    /\ rd = <<97, NL>>
    /\ yielded = <<>>

\* C7: after the device answered a read with would-block, the device's read
\* is not called again until a read-readiness notification was delivered.
C7_NoReadWhileBlocked ==
    [][blocked => ~devTouched']_vars

\* C7 witness: the task was woken by a write notification while the read
\* direction was still blocked, and went back to waiting without a read
C7_Witness ==
    /\ blocked
    /\ resumed
    /\ pc = "parked"
    /\ lastRead.kind = "wouldblock"
    /\ ~devTouched

\* C8: a would-block from a read is neither an error nor an item: the read
\* flag is cleared, read interest is registered, the task suspends, and a
\* suspended stream has not failed and can still be woken.
C8_WouldBlockSuspends ==
    [][/\ (ReadStep /\ lastRead'.kind = "wouldblock")
          => /\ pc' = "parked"
             /\ readFlag' = "notready"
             /\ readInterest'
             /\ err' = "none"
             /\ yielded' = yielded
             /\ item' = item
       /\ (pc = "parked")
          => (err = "none" /\ (readInterest \/ writeInterest)
              /\ pc' \in {"parked", "decode", "abandoned"})]_vars

\* C8 witness: a frame was yielded after the stream had been suspended
C8_Witness ==
    /\ rdAtSuspend # <<>>
    /\ Len(yielded) >= 1
    /\ pc = "print"
    /\ err = "none"

\* C9: a read error other than would-block is surfaced to the consumer, and
\* from then on the device is not read and nothing more is yielded or
\* printed.
C9_ReadErrorIsTerminal ==
    [][/\ (ReadStep /\ lastRead'.kind = "err")
          => (pc' = "failed" /\ err' = "io" /\ yielded' = yielded
              /\ item' = item)
       /\ (pc = "failed" /\ err = "io")
          => (pc' = "failed" /\ err' = err /\ yielded' = yielded
              /\ item' = item /\ printed' = printed /\ ~devTouched'
              /\ received' = received)]_vars

\* C9 witness: the read failed after a frame had been yielded and with bytes
\* still queued in the driver
C9_Witness ==
    /\ pc = "failed"
    /\ err = "io"
    /\ Len(yielded) = 1
    /\ inq # <<>>

\* C10: while the task is suspended, and when it comes back to the read
\* after being woken, the buffer holds exactly what it held before the read
\* that reported would-block.
C10_SuspendKeepsBuffer ==
    /\ (pc = "parked" => rd = rdAtSuspend)
    /\ (resumed /\ pc \in {"decode", "read"} => rd = rdAtSuspend)

\* C10 witness: the task was woken with a non-empty partial buffer and is
\* about to read again
C10_Witness ==
    /\ resumed
    /\ pc = "read"
    /\ Len(rd) >= 2
    /\ rd = rdAtSuspend

\* C11: encode succeeds and leaves the output buffer exactly as it was, for
\* every message and every buffer.
C11_EncodeIsNoOp ==
    [][Called("encode") => (ret'.val = "Ok" /\ out' = out)]_vars

\* C11 witness: a non-empty message was encoded against a non-empty buffer
C11_Witness ==
    /\ ret.op = "encode"
    /\ ret.num = 1
    /\ out = <<97>>

\* C12: timeout() returns zero whatever was set before; set_timeout returns
\* success and changes nothing of the port, the driver's timeout included.
C12_TimeoutInert ==
    [][/\ Called("timeout") => ret'.num = 0
       /\ Called("set_timeout")
          => /\ ret'.val = "Ok"
             /\ UNCHANGED <<drvTimeout, devVars, readVars, writeVars, ownVars,
                            lastRead, received, out>>]_vars

\* C12 witness: timeout() answered zero, as the second call made, on a port
\* whose driver holds a timeout of one second
C12_Witness ==
    /\ ret.op = "timeout"
    /\ ret.num = 0
    /\ ret.bit = 0
    /\ drvTimeout = 1000

\* C13 as stated: poll_read and poll_write change neither readiness flag
\* and register no interest that was not already active.
C13_PollChangesNothing ==
    [][(Called("poll_read") \/ Called("poll_write"))
       => UNCHANGED <<readFlag, writeFlag, readInterest, writeInterest>>]_vars

\* C13 amended: poll_read and poll_write change neither readiness flag and
\* leave the other direction's interest alone; when the port is not known
\* ready in the polled direction they answer NotReady and register the task
\* for that direction's notification, and when it is ready they answer Ready
\* and register nothing.
C13_PollRegistersWhenNotReady ==
    [][/\ Called("poll_read")
          => /\ UNCHANGED <<readFlag, writeFlag, writeInterest>>
             /\ (readFlag = "ready"
                   => (ret'.val = "Ready" /\ readInterest' = readInterest))
             /\ (readFlag # "ready"
                   => (ret'.val = "NotReady" /\ readInterest'))
       /\ Called("poll_write")
          => /\ UNCHANGED <<readFlag, writeFlag, readInterest>>
             /\ (writeFlag = "ready"
                   => (ret'.val = "Ready" /\ writeInterest' = writeInterest))
             /\ (writeFlag # "ready"
                   => (ret'.val = "NotReady" /\ writeInterest'))]_vars

\* C13 witness: poll_write registered write interest on a port that holds no
\* read interest, after a poll_read had answered Ready
C13_Witness ==
    /\ ret.op = "poll_write"
    /\ ret.val = "NotReady"
    /\ writeInterest
    /\ ~readInterest
    /\ readFlag = "ready"

\* C15: a would-block read clears the read flag and registers read interest
\* and leaves the write flag and write interest alone; a would-block write
\* does the same with the directions exchanged; a notification sets only
\* the flag of its own direction.
C15_FlagsIndependent ==
    [][/\ (Called("read") /\ ret'.val = "wouldblock")
          => (readFlag' = "notready" /\ readInterest'
              /\ UNCHANGED <<writeFlag, writeInterest>>)
       /\ (Called("write") /\ ret'.val = "wouldblock")
          => (writeFlag' = "notready" /\ writeInterest'
              /\ UNCHANGED <<readFlag, readInterest>>)
       /\ (readFlag # "ready" /\ readFlag' = "ready")
          => UNCHANGED <<writeFlag, writeInterest>>
       /\ (writeFlag # "ready" /\ writeFlag' = "ready")
          => UNCHANGED <<readFlag, readInterest>>]_vars

\* C15 witness: the read direction is blocked and waiting while the write
\* direction has been notified ready
C15_Witness ==
    /\ pc = "api"
    /\ readFlag = "notready"
    /\ readInterest
    /\ writeFlag = "ready"
    /\ ~writeInterest

\* the stream is neither closed nor failed nor gone
Running == pc \in {"decode", "print", "read", "parked"}

\* the bytes of a sequence of frames, one after the other
RECURSIVE FlatBytes(_)
FlatBytes(frames) ==
    IF frames = <<>> THEN <<>>
    ELSE as_bytes(Head(frames)) \o FlatBytes(Tail(frames))

\* C14: the handle is open exactly while the one port that owns it is
\* alive; it is never released twice, and once the port has been dropped
\* (at the end of the run or while the task was suspended) it has been
\* released exactly once, nothing is registered with the reactor any more
\* and the buffered bytes are gone.
C14_ReleasedExactlyOnce ==
    /\ releases <= 1
    /\ (handle = "open" <=> port = "live")
    /\ (port = "dropped"
          => /\ releases = 1
             /\ handle = "released"
             /\ ~registered
             /\ ~readInterest
             /\ ~writeInterest
             /\ rd = <<>>)

\* C14 witness: the stream was dropped while suspended with bytes buffered
C14_Witness ==
    /\ pc = "abandoned"
    /\ port = "dropped"
    /\ releases = 1
    /\ rdAtSuspend # <<>>
    /\ blocked

\* C16: from_path either yields a registered port over an open handle, or
\* fails: then its error ends the run, there is no port, the handle is not
\* open, and nothing is opened or registered afterwards.
C16_OpenFailureIsFatal ==
    [][/\ (pc = "start" /\ pc' # "start")
          => \/ (port' = "live" /\ handle' = "open" /\ registered'
                 /\ pc' = "decode" /\ err' = "none")
             \/ (port' = "none" /\ handle' # "open" /\ ~registered'
                 /\ pc' = "failed" /\ err' = "open")
       /\ (err = "open")
          => UNCHANGED <<handle, port, releases, registered, pc, err,
                         yielded, lastRead>>]_vars

\* C16 witness: the device opened but the reactor refused it; the handle
\* was released again and no port exists
C16_Witness ==
    /\ err = "open"
    /\ pc = "failed"
    /\ port = "none"
    /\ handle = "released"
    /\ releases = 1

\* C17: an error ends the run at once; when the run has ended, by
\* end-of-stream or by an error, every frame yielded has been printed once,
\* in yield order, and nothing is yielded or printed afterwards.
C17_ConsumerTerminates ==
    [][/\ (err' # "none" => pc' = "failed")
       /\ (pc' \in {"closed", "failed"} => (printed' = yielded' /\ item' = <<>>))
       /\ (pc \in {"closed", "failed"})
          => UNCHANGED <<pc, err, printed, yielded, item>>]_vars

\* C17 witness: the run ended on a read error after two frames were printed
C17_Witness ==
    /\ pc = "failed"
    /\ err = "io"
    /\ Len(printed) = 2
    /\ printed = yielded

\* C18: while the stream is running, the frames yielded so far followed by
\* the buffer are exactly the bytes read so far; the buffer grows only by a
\* read appending the bytes it returned and shrinks only by a decode removing
\* a prefix.
C18_Conservation ==
    [][(Running' /\ pc # "start")
       => /\ FlatBytes(yielded') \o rd' = received'
          /\ (Len(rd') > Len(rd)
                => (ReadStep /\ lastRead'.kind = "data"
                    /\ rd' = rd \o lastRead'.bytes))
          /\ (Len(rd') < Len(rd)
                => (DecodeStep /\ received' = received
                    /\ rd' = Drop(rd, Len(rd) - Len(rd'))))
          /\ (Len(rd') = Len(rd) => rd' = rd)]_vars

\* C18 witness: one frame yielded, a partial frame buffered, two reads made
C18_Witness ==
    /\ pc = "parked"
    /\ Len(yielded) = 1
    /\ rd # <<>>
    /\ nReads = 2
    /\ FlatBytes(yielded) \o rd = received

\* C19: when the bytes through the first terminator are not valid text,
\* decode returns the error having removed exactly those bytes, and what
\* follows the terminator stays in the buffer; without a terminator decode
\* returns no frame and the buffer is unchanged.
C19_FailedDecodeDrains ==
    [][/\ (DecodeStep /\ ~NoNL(rd) /\ ~Utf8Valid(Segment(rd, 1)))
          => /\ err' = "decode"
             /\ Len(rd) - Len(rd') = NthTerm(rd, 1)
             /\ rd' = Drop(rd, NthTerm(rd, 1))
       /\ (DecodeStep /\ NoNL(rd))
          => (rd' = rd /\ err' = err /\ pc' = "read")]_vars

\* C19 witness: decode failed on an invalid first line and left the partial
\* line that followed it in the buffer
C19_Witness ==
    /\ err = "decode"
    /\ received = <<169, NL, 97>>
    /\ rd = <<97>>
    /\ nReads = 1

\* C20: when the reactor delivers every read notification, the device every
\* byte, and the task runs whenever it can, each frame whose terminator the
\* device has delivered is eventually yielded, unless a read or decode error
\* ended the run or the stream was dropped; and the task is never suspended
\* while the buffer holds a complete frame.
C20_Progress ==
    /\ \A k \in 1..MaxLive :
          (NumTerm(received \o inq) >= k)
          ~> (Len(yielded) >= k \/ err # "none" \/ port = "dropped")
    /\ [](pc = "parked" => NoNL(rd))

\* C20 witness: the task was suspended with a partial line buffered, was
\* woken, and has yielded the completed frame
C20_Witness ==
    /\ rdAtSuspend = <<97>>
    /\ yielded = <<<<97, NL>>>>
    /\ nReads = 2
    /\ err = "none"
    /\ port = "live"

====
